---- MODULE Spec2Model ----
(***************************************************************************)
(* Model of the log-structured key-value store of src/src/lib.rs           *)
(* (KvStore: open / set / remove / get / read_log_file / compact_log).     *)
(*                                                                         *)
(* A file is a sequence of lines.  A line is either one serialized Command *)
(* (known by its kind, key and value; its byte length is the length of     *)
(* the serde_json text) or the tail of an older line that an overwrite of  *)
(* a non-truncated file left behind (kind "Junk", known by its byte        *)
(* length only), or bytes that are no UTF-8 text (kind "BadUtf8").  Every  *)
(* line is followed by one newline byte.  Offsets and sizes are byte       *)
(* counts, as in the code.                                                 *)
(***************************************************************************)
EXTENDS Integers, Sequences, FiniteSets, TLC

VARIABLES
    db_log,            \* content of <dir>/db.log, the active log
    temp_log,          \* content of <dir>/temp.log (<<>> when absent or empty)
    status,            \* "open" | "failed" (open returned Err) | "panicked" | "crashed"
                       \* | "none" (no process has opened the directory yet)
    store,             \* KvStore.store: key -> CommandBuffer [start, size]
    log_size,          \* KvStore.log_size
    number_of_writes,  \* KvStore.number_of_writes
    last,              \* history: the last call, its result and its compaction pass
    removed,           \* history: keys removed with success and not set with success since
    faults             \* history: file operations that failed and crashes, so far

vars == <<db_log, temp_log, status, store, log_size, number_of_writes, last, removed, faults>>

----------------------------------------------------------------------------
(* Bounds of the model *)

MaxLogLines == 4       \* set/remove are not called on a log of this many lines
MaxWrites == 4         \* set/remove calls of one process, the call at the threshold apart
MaxFaults == 1         \* failed file operations and crashes in one behaviour
MaxReplayLines == 3    \* lines of a log found on disk by the first open

(* The keys and values the calls draw from.  The long key makes the Rm     *)
(* line of the long key exactly as long as the Set line of a short key.    *)
Keys == {"a", "b", "rrrrrrrrrrrrrr"}
Values == {"1", "2"}

(* The set calls: a is written with both values, b and the long key with   *)
(* one each.                                                               *)
SetInputs == {<<"a", "1">>, <<"a", "2">>, <<"b", "2">>, <<"rrrrrrrrrrrrrr", "1">>}

(* The calls of the behaviours with failing file operations and crashes *)
ShortInputs == {<<"a", "1">>, <<"a", "2">>, <<"b", "2">>}
ShortKeys == {"a", "b"}

----------------------------------------------------------------------------
(* Command and its serde_json text *)

SetCmd(k, v) == [kind |-> "Set", key |-> k, value |-> v]
RmCmd(k) == [kind |-> "Rm", key |-> k, value |-> ""]
GetCmd(k) == [kind |-> "Get", key |-> k, value |-> ""]
Junk(n) == [kind |-> "Junk", key |-> "", value |-> "", bytes |-> n]
BadUtf8(n) == [kind |-> "BadUtf8", key |-> "", value |-> "", bytes |-> n]

(* serde_json::to_string(&command).len(): the externally tagged enum text *)
SerializedLen(c) ==
    CASE c.kind = "Set" ->
            Len("{\"Set\":{\"key\":\"") + Len(c.key) + Len("\",\"value\":\"")
                + Len(c.value) + Len("\"}}")
      [] c.kind = "Rm" -> Len("{\"Rm\":{\"key\":\"") + Len(c.key) + Len("\"}}")
      [] c.kind = "Get" -> Len("{\"Get\":{\"key\":\"") + Len(c.key) + Len("\"}}")

(* Bytes of a line, newline excluded *)
LineLen(l) == IF l.kind \in {"Junk", "BadUtf8"} THEN l.bytes ELSE SerializedLen(l)

RECURSIVE FileSize(_)
FileSize(f) == IF f = <<>> THEN 0 ELSE LineLen(Head(f)) + 1 + FileSize(Tail(f))

(* Offset of the first byte of line i *)
LineStart(f, i) == FileSize(SubSeq(f, 1, i - 1))

----------------------------------------------------------------------------
(* Reading a byte range: seek + read_exact + serde_json::from_str *)

(* serde_json::from_str on the bytes [start, end) of f, scanned line by    *)
(* line (line i begins at off).  The text parses when the range holds the  *)
(* whole text of exactly one command line and, around it, newlines only    *)
(* (JSON whitespace).  cmd is the command line found so far (0: none);     *)
(* the result is that line's number, 0 for whitespace only, -1 for text    *)
(* that is no JSON value (a cut line or two values).                       *)
RECURSIVE FromStr(_, _, _, _, _, _)
FromStr(f, i, off, start, end, cmd) ==
    IF i > Len(f) \/ off >= end
    THEN cmd
    ELSE IF off + LineLen(f[i]) + 1 <= start
    THEN FromStr(f, i + 1, off + LineLen(f[i]) + 1, start, end, cmd)
    ELSE IF (IF off > start THEN off ELSE start)
              >= (IF off + LineLen(f[i]) < end THEN off + LineLen(f[i]) ELSE end)
    THEN FromStr(f, i + 1, off + LineLen(f[i]) + 1, start, end, cmd)  \* its newline only
    ELSE IF /\ start <= off
            /\ off + LineLen(f[i]) <= end
            /\ f[i].kind \in {"Set", "Rm", "Get"}
            /\ cmd = 0
    THEN FromStr(f, i + 1, off + LineLen(f[i]) + 1, start, end, i)
    ELSE -1

(* str::from_utf8 on the bytes [start, end) of f: TRUE when the range      *)
(* holds no byte of a line that is no UTF-8 text                           *)
RECURSIVE FromUtf8(_, _, _, _, _)
FromUtf8(f, i, off, start, end) ==
    IF i > Len(f) \/ off >= end
    THEN TRUE
    ELSE IF /\ f[i].kind = "BadUtf8"
            /\ (IF off > start THEN off ELSE start)
                  < (IF off + LineLen(f[i]) < end THEN off + LineLen(f[i]) ELSE end)
    THEN FALSE
    ELSE FromUtf8(f, i + 1, off + LineLen(f[i]) + 1, start, end)

ReadAt(f, start, size) ==
    IF start + size > FileSize(f)
    THEN [tag |-> "Io"]                          \* read_exact: unexpected end of file
    ELSE IF ~FromUtf8(f, 1, 0, start, start + size)
    THEN [tag |-> "Utf8"]                        \* str::from_utf8 failed
    ELSE IF FromStr(f, 1, 0, start, start + size, 0) > 0
         THEN [tag |-> "Cmd", cmd |-> f[FromStr(f, 1, 0, start, start + size, 0)]]
         ELSE [tag |-> "Bad"]                    \* serde_json::Error

(* Results of get *)
OkNone == [tag |-> "None", value |-> ""]
OkSome(v) == [tag |-> "Some", value |-> v]
Err(e) == [tag |-> e, value |-> ""]

(* KvStore::get on index idx and active log f *)
Get(idx, f, k) ==
    IF k \notin DOMAIN idx
    THEN OkNone
    ELSE LET r == ReadAt(f, idx[k].start, idx[k].size) IN
         CASE r.tag = "Io" -> Err("OpenError")
           [] r.tag = "Utf8" -> Err("InvalidLogCommand")
           [] r.tag = "Bad" -> Err("WriteError")
           [] r.tag = "Cmd" -> IF r.cmd.kind = "Set"
                               THEN OkSome(r.cmd.value)
                               ELSE Err("InvalidLogCommand")

AllGets(idx, f) == [k \in Keys |-> Get(idx, f, k)]

----------------------------------------------------------------------------
(* The index: HashMap<String, CommandBuffer> *)

EmptyStore == [k \in {} |-> [start |-> 0, size |-> 0]]
Insert(idx, k, e) == (k :> e) @@ idx
(* A remove that leaves the entry in the Index *)
DeleteKeepsEntry(idx, k) == idx

Delete(idx, k) == [x \in (DOMAIN idx) \ {k} |-> idx[x]]

(* The orders in which HashMap::iter may yield the keys of S *)
Orders(S) == {o \in [1..Cardinality(S) -> S] : \A i, j \in DOMAIN o : o[i] = o[j] => i = j}

----------------------------------------------------------------------------
(* Replay: read_log_file / read_line_into_store *)

(* A Set line entered relative to the entry the key already has *)
ReadLineOntoEntry(idx, line, off) ==
    CASE line.kind = "Junk" -> [err |-> "WriteError", idx |-> idx]
      [] line.kind = "Rm" -> [err |-> "", idx |-> Delete(idx, line.key)]
      [] line.kind = "Set" ->
            [err |-> "",
             idx |-> Insert(idx, line.key,
                        [start |-> off + (IF line.key \in DOMAIN idx
                                          THEN idx[line.key].start + 1 ELSE 0),
                         size |-> LineLen(line)])]
      [] OTHER -> [err |-> "InvalidLogCommand", idx |-> idx]

ReadLineIntoStore(idx, line, off) ==
    CASE line.kind = "Junk" -> [err |-> "WriteError", idx |-> idx]
      [] line.kind = "Rm" -> [err |-> "", idx |-> Delete(idx, line.key)]
      [] line.kind = "Set" ->
            [err |-> "", idx |-> Insert(idx, line.key, [start |-> off, size |-> LineLen(line)])]
      [] OTHER -> [err |-> "InvalidLogCommand", idx |-> idx]

RECURSIVE ReadLinesFrom(_, _, _, _)
ReadLinesFrom(f, i, off, idx) ==
    IF i > Len(f)
    THEN [err |-> "", idx |-> idx, log_size |-> off]
    ELSE IF f[i].kind = "BadUtf8"
    THEN ReadLinesFrom(f, i + 1, off, idx)       \* the line's Err is printed, the loop goes on
    ELSE LET r == ReadLineIntoStore(idx, f[i], off) IN
         IF r.err # ""
         THEN [err |-> r.err, idx |-> r.idx, log_size |-> off]
         ELSE ReadLinesFrom(f, i + 1, off + LineLen(f[i]) + 1, r.idx)

ReadLogFile(f) == ReadLinesFrom(f, 1, 0, EmptyStore)

----------------------------------------------------------------------------
(* Files *)

(* write at offset 0 of a file opened with write + create and no truncate: *)
(* the bytes of old beyond the new content stay                            *)
Overwrite(old, new) ==
    LET n == FileSize(new) IN
    IF n >= FileSize(old)
    THEN new
    ELSE LET i == CHOOSE j \in 1..Len(old) :
                      LineStart(old, j) <= n /\ n < LineStart(old, j) + LineLen(old[j]) + 1
         IN IF LineStart(old, i) = n
            THEN new \o SubSeq(old, i, Len(old))
            ELSE new \o <<Junk(LineStart(old, i) + LineLen(old[i]) - n)>>
                     \o SubSeq(old, i + 1, Len(old))

----------------------------------------------------------------------------
(* Compaction: compact_log *)

CompactEvery == 10000

(* The live-set loop over the keys in iteration order o: a key whose get   *)
(* is Ok(Some(value)) is written as a Set line to the temporary file and   *)
(* entered in updated_store; any other key is passed over.                 *)
RECURSIVE LiveSetLoop(_, _, _, _, _)
LiveSetLoop(f, idx, o, i, acc) ==
    IF i > Len(o)
    THEN acc
    ELSE LET r == Get(idx, f, o[i]) IN
         IF r.tag = "Some"
         THEN LET c == SetCmd(o[i], r.value) IN
              LiveSetLoop(f, idx, o, i + 1,
                  [lines |-> Append(acc.lines, c),
                   updated_store |-> Insert(acc.updated_store, o[i],
                                        [start |-> acc.offset_start, size |-> SerializedLen(c)]),
                   offset_start |-> acc.offset_start + SerializedLen(c) + 1,
                   skipped |-> acc.skipped])
         ELSE LiveSetLoop(f, idx, o, i + 1, [acc EXCEPT !.skipped = @ \cup {o[i]}])

LiveSet(f, idx, o) ==
    LiveSetLoop(f, idx, o, 1,
        [lines |-> <<>>, updated_store |-> EmptyStore, offset_start |-> 0, skipped |-> {}])

(* What can go wrong in a pass that writes n lines *)
NoFault == [kind |-> "none", at |-> 0]
IoFaults(n) ==
    {[kind |-> "create", at |-> 0], [kind |-> "rename", at |-> 0]}
        \cup {[kind |-> "write", at |-> p] : p \in 0..(n - 1)}
CrashPoints(n) ==
    {[kind |-> "crash", at |-> p] : p \in 0..n} \cup {[kind |-> "crash_renamed", at |-> 0]}

(* One pass over directory (f, t) with index idx and log_size size, whose *)
(* live-set loop produced live.                                            *)
(* outcome "ok": compact_log returned Ok(()); "panic": an unwrap failed;   *)
(* "crash": the process stopped at the crash point.                        *)
PassStopped(f, t, idx, size, live, how) ==
    [outcome |-> how, db |-> f, temp |-> t, store |-> idx, log_size |-> size,
     skipped |-> live.skipped, renamed |-> FALSE]

CompactResult(f, t, idx, size, live, fault) ==
    CASE fault.kind = "none" ->
           [outcome |-> "ok", db |-> Overwrite(t, live.lines), temp |-> <<>>,
            store |-> live.updated_store, log_size |-> live.offset_start,
            skipped |-> live.skipped, renamed |-> TRUE]
      [] fault.kind = "rename" ->
           [outcome |-> "ok", db |-> f, temp |-> Overwrite(t, live.lines),
            store |-> live.updated_store, log_size |-> live.offset_start,
            skipped |-> live.skipped, renamed |-> FALSE]
      [] fault.kind = "create" -> PassStopped(f, t, idx, size, live, "panic")
      [] fault.kind = "write" ->
           [PassStopped(f, t, idx, size, live, "panic")
               EXCEPT !.temp = Overwrite(t, SubSeq(live.lines, 1, fault.at))]
      [] fault.kind = "crash" ->
           [PassStopped(f, t, idx, size, live, "crash")
               EXCEPT !.temp = Overwrite(t, SubSeq(live.lines, 1, fault.at))]
      [] fault.kind = "crash_renamed" ->
           [PassStopped(f, t, idx, size, live, "crash")
               EXCEPT !.db = Overwrite(t, live.lines), !.temp = <<>>, !.renamed = TRUE]

CompactLog(f, t, idx, size, o, fault) ==
    CompactResult(f, t, idx, size, LiveSet(f, idx, o), fault)

----------------------------------------------------------------------------
(* History of the last call *)

(* No get results recorded *)
NoGets == <<>>

(* get of every key on the Index a replay of f builds *)
ReplayedGets(f) ==
    IF ReadLogFile(f).err = "" THEN AllGets(ReadLogFile(f).idx, f) ELSE NoGets

NoCall ==
    [op |-> "none",         \* "open" | "set" | "remove" | "replay"
     key |-> "",             \* set: the key
     value |-> "",           \* set: the value
     res |-> "Ok",           \* "Ok", the KvError returned, "panic" or "crash"
     wasRemoved |-> FALSE,   \* remove: the key was in removed when called
     after |-> "none",       \* open: how the process before ended ("drop", or what stopped it)
     append |-> "none",      \* set/remove: "none" | "ok" | "failed"
     pre |-> NoGets,         \* open: get of every key just before the engine was dropped
     pass |-> FALSE,         \* a compaction pass ran in the call
     fault |-> "none",       \* what went wrong in the pass
     skipped |-> {},         \* keys of the Index the pass wrote no line for
     passPre |-> NoGets,     \* get of every key just before the pass
     passPost |-> NoGets,    \* get of every key just after the pass
     before |-> <<>>,        \* the active log just before a pass that did not return
     replayed |-> NoGets,    \* open after such a pass: get of every key on replay of before
     opened |-> <<>>,        \* open by the first process: the log it found on disk
     passLog |-> <<>>,       \* the active log just after a pass that returned
     passKeys |-> {},        \* the keys of the Index just after a pass that returned
     passOldSize |-> 0,      \* byte length of the active log just before the pass
     durablePre |-> NoGets]  \* get of every key on replay of the active log just before the pass

(* The pass of a call that ran none *)
NoPass ==
    [outcome |-> "ok", db |-> db_log, temp |-> temp_log, store |-> store,
     log_size |-> log_size, skipped |-> {}, renamed |-> FALSE]

PassHistory(call, f, idx, p, fault) ==
    [call EXCEPT !.pass = TRUE, !.fault = fault.kind, !.skipped = p.skipped,
                 !.passPre = AllGets(idx, f),
                 !.passPost = IF p.outcome = "ok" THEN AllGets(p.store, p.db) ELSE NoGets,
                 !.passLog = IF p.outcome = "ok" THEN p.db ELSE <<>>,
                 !.passKeys = IF p.outcome = "ok" THEN DOMAIN p.store ELSE {},
                 !.passOldSize = FileSize(f),
                 !.durablePre = ReplayedGets(f),
                 !.before = IF p.outcome = "ok" THEN <<>> ELSE f]

----------------------------------------------------------------------------
(* The write path: increment_writes, set, remove *)

(* A write to a file that is not in append mode, landing on its last line *)
WriteLineOverLast(f, c) == IF f = <<>> THEN <<c>> ELSE [f EXCEPT ![Len(f)] = c]

(* writeln! on the append handle: the line goes to the end of the file *)
AppendLine(f, c) == Append(f, c)

(* increment_writes: the counter after the call, and the pass if one is due *)
Due == (number_of_writes + 1) % CompactEvery = 0

IncrementWrites(o, fault) ==
    IF Due THEN CompactLog(db_log, temp_log, store, log_size, o, fault) ELSE NoPass

(* Calls are counted up to MaxWrites from open; past that, only the call   *)
(* that reaches the threshold is modelled                                  *)
CanWrite ==
    \/ number_of_writes < MaxWrites
    \/ number_of_writes = CompactEvery - 1

Stopped(p) == IF p.outcome = "panic" THEN "panicked" ELSE "crashed"

WriteHistory(call, p, fault) ==
    IF Due THEN PassHistory(call, db_log, store, p, fault) ELSE call

(* A call whose pass did not return: the process is gone, the files stay *)
PassStops(call, p, fault) ==
    /\ status' = Stopped(p)
    /\ db_log' = p.db
    /\ temp_log' = p.temp
    /\ number_of_writes' = number_of_writes + 1
    /\ last' = PassHistory([call EXCEPT !.res = p.outcome], db_log, store, p, fault)
    /\ UNCHANGED <<store, log_size, removed>>

(* set after increment_writes returned with pass p *)
SetAppend(k, v, p, hist, appendOk) ==
    /\ number_of_writes' = number_of_writes + 1
    /\ temp_log' = p.temp
    /\ status' = "open"
    /\ IF appendOk
       THEN /\ db_log' = AppendLine(p.db, SetCmd(k, v))
            /\ store' = Insert(p.store, k,
                            [start |-> p.log_size, size |-> SerializedLen(SetCmd(k, v)) + 1])
            /\ log_size' = p.log_size + SerializedLen(SetCmd(k, v)) + 1
            /\ removed' = removed \ {k}
            /\ last' = [hist EXCEPT !.append = "ok"]
       ELSE /\ db_log' = p.db
            /\ store' = p.store
            /\ log_size' = p.log_size
            /\ removed' = removed
            /\ last' = [hist EXCEPT !.append = "failed", !.res = "WriteError"]

SetStep(k, v, p, call, fault, appendOk) ==
    /\ status = "open"
    /\ CanWrite
    /\ (p.outcome = "ok" => Len(p.db) < MaxLogLines)
    /\ IF p.outcome # "ok"
       THEN PassStops(call, p, fault)
       ELSE SetAppend(k, v, p, WriteHistory(call, p, fault), appendOk)

SetCall(k, v, o, fault, appendOk) ==
    \E p \in {IncrementWrites(o, fault)} :
        SetStep(k, v, p, [NoCall EXCEPT !.op = "set", !.key = k, !.value = v], fault, appendOk)

(* remove after increment_writes returned with pass p *)
RemoveAppend(k, p, hist, appendOk) ==
    /\ number_of_writes' = number_of_writes + 1
    /\ temp_log' = p.temp
    /\ log_size' = p.log_size
    /\ IF k \in DOMAIN p.store
       THEN /\ store' = Delete(p.store, k)
            /\ IF appendOk
               THEN /\ db_log' = AppendLine(p.db, RmCmd(k))
                    /\ status' = "open"
                    /\ removed' = removed \cup {k}
                    /\ last' = [hist EXCEPT !.append = "ok"]
               ELSE /\ db_log' = p.db
                    /\ status' = "panicked"
                    /\ removed' = removed
                    /\ last' = [hist EXCEPT !.append = "failed", !.res = "panic"]
       ELSE /\ store' = p.store
            /\ db_log' = p.db
            /\ status' = "open"
            /\ removed' = removed
            /\ last' = [hist EXCEPT !.res = "RemoveError"]

RemoveStep(k, p, call, fault, appendOk) ==
    /\ status = "open"
    /\ CanWrite
    /\ (p.outcome = "ok" => Len(p.db) < MaxLogLines)
    /\ IF p.outcome # "ok"
       THEN PassStops(call, p, fault)
       ELSE RemoveAppend(k, p, WriteHistory(call, p, fault), appendOk)

RemoveCall(k, o, fault, appendOk) ==
    \E p \in {IncrementWrites(o, fault)} :
        RemoveStep(k, p, [NoCall EXCEPT !.op = "remove", !.wasRemoved = (k \in removed)],
                   fault, appendOk)

----------------------------------------------------------------------------
(* get, and open on the directory the last process left *)

(* get takes &self and opens the log read-only: whatever it returns, no    *)
(* field and no file changes                                               *)
GetCall(k) ==
    /\ status = "open"
    /\ Get(store, db_log, k) \in
          {OkNone} \cup {OkSome(v) : v \in Values}
              \cup {Err(e) : e \in {"OpenError", "WriteError", "InvalidLogCommand"}}
    /\ UNCHANGED vars

(* How the process that held the directory before this open ended *)
EndedBy ==
    IF status = "open" THEN "drop"
    ELSE IF last.pass /\ last.fault # "none" /\ last.res \in {"panic", "crash"} THEN last.fault
    ELSE status

(* The last call was stopped inside its pass *)
StoppedInPass == status \in {"panicked", "crashed"} /\ last.pass /\ last.fault # "none"

OpenHistory ==
    [NoCall EXCEPT !.op = "open", !.after = EndedBy,
                   !.pre = IF status = "open" THEN AllGets(store, db_log) ELSE NoGets,
                   !.opened = IF status = "none" THEN db_log ELSE <<>>,
                   !.before = IF StoppedInPass THEN last.before ELSE <<>>,
                   !.replayed = IF StoppedInPass THEN ReplayedGets(last.before) ELSE NoGets]

(* open after read_log_file returned r; p is the pass of open *)
OpenStep(r, p, call, fault) ==
    /\ number_of_writes' = 0
    /\ removed' = removed
    /\ IF r.err # ""
       THEN /\ status' = "failed"
            /\ last' = [call EXCEPT !.res = r.err]
            /\ store' = EmptyStore
            /\ log_size' = 0
            /\ UNCHANGED <<db_log, temp_log>>
       ELSE /\ db_log' = p.db
            /\ temp_log' = p.temp
            /\ IF p.outcome = "ok"
               THEN /\ status' = "open"
                    /\ store' = p.store
                    /\ log_size' = p.log_size
                    /\ last' = [PassHistory(call, db_log, r.idx, p, fault)
                                   EXCEPT !.before = call.before]
               ELSE /\ status' = Stopped(p)
                    /\ store' = EmptyStore
                    /\ log_size' = 0
                    /\ last' = PassHistory([call EXCEPT !.res = p.outcome],
                                           db_log, r.idx, p, fault)

OpenPass(r, o, fault) == CompactLog(db_log, temp_log, r.idx, r.log_size, o, fault)

OpenCall(o, fault) ==
    \E r \in {ReadLogFile(db_log)} :
      \E p \in {OpenPass(r, o, fault)} :
        OpenStep(r, p, OpenHistory, fault)

(* The keys open's pass iterates: those of the replayed index *)
ReplayedKeys == DOMAIN ReadLogFile(db_log).idx

(* Lines the pass writes when it iterates the keys of idx in order o *)
Written(idx, o) == Len(LiveSet(db_log, idx, o).lines)

----------------------------------------------------------------------------
(* The actions *)

PassOrders == IF Due THEN Orders(DOMAIN store) ELSE {<<>>}

Set ==
    /\ \E kv \in SetInputs, o \in PassOrders : SetCall(kv[1], kv[2], o, NoFault, TRUE)
    /\ UNCHANGED faults

Remove ==
    /\ \E k \in Keys, o \in PassOrders : RemoveCall(k, o, NoFault, TRUE)
    /\ UNCHANGED faults

(* remove of a key no call ever sets, called again and again while no pass *)
(* is due: each call counts, finds no entry and returns RemoveError        *)
RemoveUnknownRun ==
    /\ status = "open"
    /\ number_of_writes < CompactEvery - 1
    /\ number_of_writes' = CompactEvery - 1
    /\ last' = [NoCall EXCEPT !.op = "remove", !.res = "RemoveError"]
    /\ UNCHANGED <<db_log, temp_log, status, store, log_size, removed, faults>>

GetKey == \E k \in Keys : GetCall(k)

Reopen ==
    /\ \E o \in Orders(ReplayedKeys) : OpenCall(o, NoFault)
    /\ UNCHANGED faults

Init ==
    /\ db_log = <<>>
    /\ temp_log = <<>>
    /\ status = "open"
    /\ store = EmptyStore
    /\ log_size = 0
    /\ number_of_writes = 0
    /\ last = [NoCall EXCEPT !.op = "open", !.after = "none", !.pass = TRUE,
                           !.durablePre = ReplayedGets(<<>>)]
    /\ removed = {}
    /\ faults = 0

Next == Set \/ Remove \/ RemoveUnknownRun \/ GetKey \/ Reopen

Spec == Init /\ [][Next]_vars

----------------------------------------------------------------------------
(* The same calls, on the short keys, when file operations fail: the       *)
(* append of set / remove, and the create, write and rename of a pass      *)

SetShort ==
    /\ \E kv \in ShortInputs, o \in PassOrders : SetCall(kv[1], kv[2], o, NoFault, TRUE)
    /\ UNCHANGED faults

RemoveShort ==
    /\ \E k \in ShortKeys, o \in PassOrders : RemoveCall(k, o, NoFault, TRUE)
    /\ UNCHANGED faults

Fails == faults < MaxFaults /\ faults' = faults + 1

SetAppendFails ==
    /\ \E kv \in ShortInputs, o \in PassOrders : SetCall(kv[1], kv[2], o, NoFault, FALSE)
    /\ Fails

RemoveAppendFails ==
    /\ \E k \in DOMAIN store, o \in PassOrders : RemoveCall(k, o, NoFault, FALSE)
    /\ Fails

SetPassFails ==
    /\ Due
    /\ \E kv \in ShortInputs, o \in Orders(DOMAIN store) :
         \E fault \in IoFaults(Written(store, o)) :
           SetCall(kv[1], kv[2], o, fault, TRUE)
    /\ Fails

RemovePassFails ==
    /\ Due
    /\ \E k \in ShortKeys, o \in Orders(DOMAIN store) :
         \E fault \in IoFaults(Written(store, o)) :
           RemoveCall(k, o, fault, TRUE)
    /\ Fails

OpenPassFails ==
    /\ ReadLogFile(db_log).err = ""
    /\ \E o \in Orders(ReplayedKeys) :
         \E fault \in IoFaults(Written(ReadLogFile(db_log).idx, o)) :
           OpenCall(o, fault)
    /\ Fails

NextFault ==
    \/ SetShort
    \/ RemoveShort
    \/ RemoveUnknownRun
    \/ GetKey
    \/ Reopen
    \/ SetAppendFails
    \/ RemoveAppendFails
    \/ SetPassFails
    \/ RemovePassFails
    \/ OpenPassFails

SpecFault == Init /\ [][NextFault]_vars

----------------------------------------------------------------------------
(* The same calls, on the short keys, when the process can stop at any     *)
(* step of a pass                                                          *)

SetPassCrashes ==
    /\ Due
    /\ \E kv \in ShortInputs, o \in Orders(DOMAIN store) :
         \E fault \in CrashPoints(Written(store, o)) :
           SetCall(kv[1], kv[2], o, fault, TRUE)
    /\ Fails

RemovePassCrashes ==
    /\ Due
    /\ \E k \in ShortKeys, o \in Orders(DOMAIN store) :
         \E fault \in CrashPoints(Written(store, o)) :
           RemoveCall(k, o, fault, TRUE)
    /\ Fails

OpenPassCrashes ==
    /\ ReadLogFile(db_log).err = ""
    /\ \E o \in Orders(ReplayedKeys) :
         \E fault \in CrashPoints(Written(ReadLogFile(db_log).idx, o)) :
           OpenCall(o, fault)
    /\ Fails

NextCrash ==
    \/ SetShort
    \/ RemoveShort
    \/ RemoveUnknownRun
    \/ GetKey
    \/ Reopen
    \/ SetPassCrashes
    \/ RemovePassCrashes
    \/ OpenPassCrashes

SpecCrash == Init /\ [][NextCrash]_vars

----------------------------------------------------------------------------
(* open on a directory that holds any log: the lines a log on disk is made *)
(* of are Set and Rm records, a Get record, a line that is no JSON text    *)
(* and a line that is no UTF-8 text                                        *)

LogLines ==
    {SetCmd("a", "1"), SetCmd("a", "2"), SetCmd("b", "2"), RmCmd("a"), RmCmd("b"),
     GetCmd("a"), Junk(5), BadUtf8(1)}

Logs == UNION {[1..n -> LogLines] : n \in 0..MaxReplayLines}

(* No process has opened the directory yet *)
InitReplay ==
    /\ db_log \in Logs
    /\ temp_log = <<>>
    /\ status = "none"
    /\ store = EmptyStore
    /\ log_size = 0
    /\ number_of_writes = 0
    /\ last = NoCall
    /\ removed = {}
    /\ faults = 0

(* read_log_file is public: called on the engine, it replays the active   *)
(* log onto the Index the engine holds; log_size is set when it returns Ok *)
ReadLogFileStep(r) ==
    /\ status = "open"
    /\ store' = r.idx
    /\ log_size' = IF r.err = "" THEN r.log_size ELSE log_size
    /\ last' = [NoCall EXCEPT !.op = "replay", !.res = IF r.err = "" THEN "Ok" ELSE r.err]
    /\ UNCHANGED <<db_log, temp_log, status, number_of_writes, removed, faults>>

ReadLogFileCall == \E r \in {ReadLinesFrom(db_log, 1, 0, store)} : ReadLogFileStep(r)

NextReplay == Reopen \/ GetKey \/ ReadLogFileCall \/ SetShort \/ RemoveShort

SpecReplay == InitReplay /\ [][NextReplay]_vars

----------------------------------------------------------------------------
(* Properties *)

Returned == last.res \notin {"panic", "crash"}

(* C1: a set(k, v) that returned success and is followed at once by get(k) *)
(* gives v, also when k had a value before and after removes and passes.   *)
C1_SetThenGet ==
    (status = "open" /\ last.op = "set" /\ last.res = "Ok")
        => Get(store, db_log, last.key) = OkSome(last.value)

(* C2: once remove(k) returned success, and until set(k, _) returns        *)
(* success, get(k) is Ok(None) and a further remove(k) that returns gives  *)
(* the key-not-found error; removed holds these keys across reopens.       *)
C2_RemovedStaysAbsent ==
    /\ status = "open" => \A k \in removed : Get(store, db_log, k) = OkNone
    /\ (last.op = "remove" /\ last.wasRemoved /\ Returned) => last.res = "RemoveError"

(* C3: dropping the engine and opening the directory again gives, for      *)
(* every key, the get result the engine gave just before it was dropped.   *)
C3_ReopenSameGets ==
    (status = "open" /\ last.op = "open" /\ last.after = "drop")
        => AllGets(store, db_log) = last.pre

(* C4: get of every key is the same just before and just after a           *)
(* compaction pass.                                                        *)
C4_PassKeepsGets ==
    (last.pass /\ last.fault = "none" /\ Returned) => last.passPost = last.passPre

(* C5: get(k) returns a value only if the line its Index entry locates is  *)
(* a Set for exactly k.                                                    *)
C5_GetChecksKey ==
    status = "open" =>
        \A k \in DOMAIN store :
            Get(store, db_log, k).tag = "Some"
                => ReadAt(db_log, store[k].start, store[k].size).cmd.key = k

(* C6: remove(k) with k absent from the Index returns the key-not-found    *)
(* error and leaves the log and the Index as they were: nothing appended,  *)
(* no entry changed, no pass run.                                          *)
C6_RemoveAbsentNoEffect ==
    [][(last'.op = "remove" /\ last'.res = "RemoveError")
          => (db_log' = db_log /\ store' = store /\ ~last'.pass)]_vars

(* C7: when the append fails inside set or remove, the call returns an     *)
(* error and the Index and log_size are as before the call.                *)
C7_FailedAppendNoEffect ==
    [][(last'.append = "failed")
          => (/\ last'.res \notin {"Ok", "panic", "crash"}
              /\ store' = store
              /\ log_size' = log_size)]_vars

(* C8: after a pass in which a file operation failed, every get returns    *)
(* what it returned before the pass.                                       *)
C8_FailedPassKeepsGets ==
    (status = "open" /\ last.pass /\ last.fault \in {"create", "write", "rename"})
        => last.passPost = last.passPre

(* C9: a pass does not return success having passed over a key of the      *)
(* Index.                                                                  *)
C9_PassSkipsNoKey ==
    (last.pass /\ last.fault = "none" /\ Returned) => last.skipped = {}

(* C10: when the process stops inside a pass the active log is the whole   *)
(* log from before the pass until the rename, and the next open gives for  *)
(* every key the get result of replaying that log.                         *)
C10_CrashInPass ==
    /\ (status = "crashed" /\ last.fault = "crash") => db_log = last.before
    /\ (last.op = "open" /\ last.after \in {"crash", "crash_renamed"} /\ Returned)
          => (status = "open" /\ AllGets(store, db_log) = last.replayed)

(* C11: open on a log that holds a line which is no Set and no Rm record   *)
(* (no JSON text, no UTF-8 text, or a Get record) returns an error and no  *)
(* engine.                                                                 *)
C11_CorruptLogAbortsOpen ==
    [][(last'.op = "open" /\ \E i \in DOMAIN db_log : db_log[i].kind \notin {"Set", "Rm"})
          => status' = "failed"]_vars

(* C12: replaying a log onto the Index that a replay of it built gives the *)
(* same Index (keys, offsets, lengths) and the same log length as the      *)
(* replay into a fresh Index; so read_log_file called on an engine leaves  *)
(* the Index and the log length of a fresh replay, however often called.   *)
C12_ReplayIdempotent ==
    /\ ReadLinesFrom(db_log, 1, 0, ReadLogFile(db_log).idx) = ReadLogFile(db_log)
    /\ (last.op = "replay" /\ last.res = "Ok")
          => (store = ReadLogFile(db_log).idx /\ log_size = ReadLogFile(db_log).log_size)

(* C12 witness: a log in which one key is set twice and another is removed *)
(* was replayed by read_log_file onto the engine's Index                   *)
C12_Witness ==
    /\ last.op = "replay" /\ last.res = "Ok"
    /\ store # EmptyStore
    /\ \E i, j, n \in DOMAIN db_log :
          /\ i < j
          /\ db_log[i].kind = "Set" /\ db_log[j].kind = "Set" /\ db_log[i].key = db_log[j].key
          /\ db_log[n].kind = "Rm" /\ db_log[n].key # db_log[i].key

(* The line of log f that holds the last write (Set or Rm) to key k; 0 if  *)
(* there is none                                                           *)
RECURSIVE LastWrite(_, _, _)
LastWrite(f, k, i) ==
    IF i = 0 THEN 0
    ELSE IF f[i].kind \in {"Set", "Rm"} /\ f[i].key = k THEN i
    ELSE LastWrite(f, k, i - 1)

(* C13: for every key of the Index, the bytes of the active log at its     *)
(* entry are one record (and its terminator), a Set for that key, and the  *)
(* last write to the key in the log.                                       *)
C13_IndexInvariant ==
    status = "open" =>
        \A k \in DOMAIN store :
            /\ ReadAt(db_log, store[k].start, store[k].size).tag = "Cmd"
            /\ ReadAt(db_log, store[k].start, store[k].size).cmd = SetCmd(k,
                    ReadAt(db_log, store[k].start, store[k].size).cmd.value)
            /\ FromStr(db_log, 1, 0, store[k].start, store[k].start + store[k].size, 0)
                  = LastWrite(db_log, k, Len(db_log))

(* What get(k) is to return for a log of Set and Rm records: the value of  *)
(* the last Set of k if no Rm of k follows it, not-found otherwise         *)
LastValue(f, k) ==
    IF LastWrite(f, k, Len(f)) = 0 THEN OkNone
    ELSE IF f[LastWrite(f, k, Len(f))].kind = "Rm" THEN OkNone
    ELSE OkSome(f[LastWrite(f, k, Len(f))].value)

WellFormed(f) == \A i \in DOMAIN f : f[i].kind \in {"Set", "Rm"}

(* C14: open on a log of Set and Rm records returns an engine in which     *)
(* get(k) gives, for every key, the value of the last Set of k in that log *)
(* if no Rm of k follows it and not-found otherwise; an Rm of a key that   *)
(* is not in the Index is no error, and an empty log gives not-found for   *)
(* every key.                                                              *)
C14_OpenGivesLastValues ==
    [][(last'.op = "open" /\ last'.fault = "none" /\ WellFormed(db_log))
          => (/\ status' = "open"
              /\ \A k \in Keys : Get(store', db_log', k) = LastValue(db_log, k))]_vars

(* C14 witness: the first open found a log in which a key is set twice and *)
(* a key is removed, one of them by an Rm that finds no entry, and the     *)
(* engine it returned holds a key                                          *)
C14_Witness ==
    /\ last.op = "open" /\ status = "open"
    /\ store # EmptyStore
    /\ Len(last.opened) = 3
    /\ last.opened[1].kind = "Rm"
    /\ \E i, j \in DOMAIN last.opened :
          /\ i < j
          /\ last.opened[i].kind = "Set" /\ last.opened[j].kind = "Set"
          /\ last.opened[i].key = last.opened[j].key
          /\ last.opened[i].value # last.opened[j].value

(* C15: just after a pass that returned success the active log is one Set  *)
(* record for each key of the Index and nothing else (no Rm record, no     *)
(* second record of a key, no bytes of an older temporary file), and it is *)
(* no longer than the log it replaced.                                     *)
C15_CompactedLogIsLiveSet ==
    (last.pass /\ last.fault = "none" /\ Returned) =>
        /\ Len(last.passLog) = Cardinality(last.passKeys)
        /\ \A i \in DOMAIN last.passLog :
              last.passLog[i].kind = "Set" /\ last.passLog[i].key \in last.passKeys
        /\ \A i, j \in DOMAIN last.passLog :
              last.passLog[i].key = last.passLog[j].key => i = j
        /\ FileSize(last.passLog) <= last.passOldSize

(* C16: the write counter advances by one in a set or remove that returns  *)
(* success and not at all in one that returns an error (key not found, or  *)
(* a failed append), so that it counts the successful writes since open.   *)
C16_CounterCountsSuccesses ==
    [][(last'.op \in {"set", "remove"} /\ last'.res \notin {"panic", "crash"})
          => number_of_writes' = IF last'.res = "Ok" THEN number_of_writes + 1
                                 ELSE number_of_writes]_vars

(* C17: the pass that a set or remove triggers runs after the call's own   *)
(* record is appended and the Index updated: the compacted log of the pass *)
(* holds the Set record of the call, or holds no record of the removed key *)
(* (the key of the Rm record the call appended).                           *)
C17_PassReflectsTriggeringWrite ==
    (last.pass /\ last.fault = "none" /\ last.res = "Ok" /\ last.op \in {"set", "remove"}) =>
        IF last.op = "set"
        THEN \E i \in DOMAIN last.passLog : last.passLog[i] = SetCmd(last.key, last.value)
        ELSE \A i \in DOMAIN last.passLog : last.passLog[i].key # db_log[Len(db_log)].key

(* C18: a set or remove that runs no pass leaves every line of the active  *)
(* log as it was and, when it returns success, adds its one record at the  *)
(* end; one that returns an error adds nothing.  (get changes no variable  *)
(* at all.)  So the log only shrinks across a pass.                        *)
C18_AppendOnly ==
    [][(last'.op \in {"set", "remove"} /\ ~last'.pass) =>
          IF last'.res = "Ok"
          THEN /\ Len(db_log') = Len(db_log) + 1
               /\ SubSeq(db_log', 1, Len(db_log)) = db_log
               /\ db_log'[Len(db_log')].kind = (IF last'.op = "set" THEN "Set" ELSE "Rm")
               /\ FileSize(db_log') = FileSize(db_log) + LineLen(db_log'[Len(db_log')]) + 1
          ELSE db_log' = db_log]_vars

(* C18 witness: a remove that ran no pass appended its Rm record to a log  *)
(* of two lines or more                                                    *)
C18_Witness ==
    /\ last.op = "remove" /\ last.res = "Ok" /\ ~last.pass
    /\ Len(db_log) >= 3
    /\ db_log[Len(db_log)].kind = "Rm"

(* C19: log_size is the byte length of the active log, so that the start   *)
(* of the next Set entry is the offset at which its record begins.         *)
C19_LogSizeIsFileLength ==
    status = "open" => log_size = FileSize(db_log)

(* C20: replaying the active log just after a pass gives, for every key,   *)
(* the get result that replaying the active log just before it gave.       *)
C20_PassKeepsDurableContent ==
    (last.pass /\ last.fault = "none" /\ Returned)
        => ReplayedGets(last.passLog) = last.durablePre

(* C21: a set(k, v) or remove(k) that returns, with success or with an     *)
(* error, with or without a pass, leaves get(k') as it was for every key   *)
(* k' other than k.  (k is the key of the set, or of the Rm record a       *)
(* remove appended; a remove that finds no entry leaves get(k) not-found   *)
(* as well, so that every key is compared.)                                *)
C21_OtherKeysUnchanged ==
    [][(status = "open" /\ last'.op \in {"set", "remove"} /\ last'.res \notin {"panic", "crash"})
          => \A k \in Keys :
                \/ last'.op = "set" /\ k = last'.key
                \/ last'.op = "remove" /\ last'.res = "Ok" /\ k = db_log'[Len(db_log')].key
                \/ Get(store', db_log', k) = Get(store, db_log, k)]_vars

====
